---------------------------- MODULE Spec2Model ----------------------------
(***************************************************************************)
(* A model of src/scraper.py: the TradingView heatmap scraper.             *)
(*                                                                         *)
(* Python values are tagged records (Absent is a key missing from a dict), *)
(* strings are sequences of one-character strings, and a float is a        *)
(* fixed-point integer with Precision fractional digits (value * Scale):   *)
(* every decimal literal the model feeds to float() has at most Precision  *)
(* fractional digits, so the representation is exact for them.             *)
(***************************************************************************)
EXTENDS Integers, Sequences, FiniteSets, TLC

\* ------------------------------------------------------------- bounds
\* Longest change string enumerated for the pure functions.
MaxStrLen == 4
\* Longest record sequence the extraction returns.
MaxRecords == 2
\* Largest magnitude of the grid of change values given to the color function.
MaxMagnitude == 12

Precision == MaxStrLen - 2
Scale == 10 ^ Precision

\* ------------------------------------------------------------- values
Absent == [tag |-> "absent", s |-> <<>>, n |-> 0]
Null == [tag |-> "null", s |-> <<>>, n |-> 0]
Str(cs) == [tag |-> "str", s |-> cs, n |-> 0]
Num(k) == [tag |-> "num", s |-> <<>>, n |-> k]

DigitChars == <<"0", "1", "2", "3", "4", "5", "6", "7", "8", "9">>
IsDigit(c) == \E i \in 1..10 : DigitChars[i] = c
DigitVal(c) == (CHOOSE i \in 1..10 : DigitChars[i] = c) - 1
IsSign(c) == c \in {"+", "-"}

Abs(x) == IF x < 0 THEN -x ELSE x
Min(a, b) == IF a < b THEN a ELSE b

\* Python truthiness of a value: None, "" and 0 are falsy.
Truthy(v) ==
    CASE v.tag = "null" -> FALSE
      [] v.tag = "str" -> v.s # <<>>
      [] v.tag = "num" -> v.n # 0
      [] OTHER -> FALSE

\* ------------------------------------------------- float(match.group(1))
RECURSIVE DigitsValue(_)
DigitsValue(ds) ==
    IF ds = <<>> THEN 0
    ELSE DigitsValue(SubSeq(ds, 1, Len(ds) - 1)) * 10 + DigitVal(ds[Len(ds)])

\* The fractional digits as a multiple of 1/Scale.
FracValue(ds) ==
    LET kept == SubSeq(ds, 1, Min(Len(ds), Precision))
    IN DigitsValue(kept) * (10 ^ (Precision - Len(kept)))

\* float() of a string of the form [+-]?digits[.digits]
FloatOf(t) ==
    LET neg == t # <<>> /\ t[1] = "-"
        body == IF t # <<>> /\ IsSign(t[1]) THEN SubSeq(t, 2, Len(t)) ELSE t
        dots == {i \in 1..Len(body) : body[i] = "."}
        dot == IF dots = {} THEN Len(body) + 1 ELSE CHOOSE i \in dots : TRUE
        mag == DigitsValue(SubSeq(body, 1, dot - 1)) * Scale
                 + FracValue(SubSeq(body, dot + 1, Len(body)))
    IN IF neg THEN -mag ELSE mag

\* ------------------------------------------------- re.search (line 141)
\* A faulty variant: the percent markers are left in the string.
StripPercent_Keeps(s) == s

\* str.replace('%', '')
StripPercent(s) == SelectSeq(s, LAMBDA c : c # "%")

\* Index of the last digit of the maximal run of digits that starts at i
\* (s[i] is a digit): the greedy \d+ and \d*.
RECURSIVE DigitRunEnd(_, _)
DigitRunEnd(s, i) ==
    IF i + 1 <= Len(s) /\ IsDigit(s[i + 1]) THEN DigitRunEnd(s, i + 1) ELSE i

\* The match of [+-]?\d+\.?\d* attempted at position i: the index of its last
\* character, or 0 when the pattern does not match there.  The sign is taken
\* when a digit follows it; without a digit after it the engine backtracks to
\* the empty sign and \d+ fails on the sign character.
MatchEndAt(s, i) ==
    LET d == IF IsSign(s[i]) /\ i + 1 <= Len(s) /\ IsDigit(s[i + 1])
             THEN i + 1 ELSE i
    IN IF ~IsDigit(s[d]) THEN 0
       ELSE LET e1 == DigitRunEnd(s, d)
                e2 == IF e1 + 1 <= Len(s) /\ s[e1 + 1] = "." THEN e1 + 1 ELSE e1
            IN IF e2 + 1 <= Len(s) /\ IsDigit(s[e2 + 1])
               THEN DigitRunEnd(s, e2 + 1) ELSE e2

\* re.search: the scan tries every start from the left and stops at the first
\* that matches.  found = FALSE is Python's None.
ReSearch(s) ==
    LET starts == {i \in 1..Len(s) : MatchEndAt(s, i) # 0}
    IN IF starts = {} THEN [found |-> FALSE, group |-> <<>>]
       ELSE LET i == CHOOSE k \in starts : \A j \in starts : k <= j
            IN [found |-> TRUE, group |-> SubSeq(s, i, MatchEndAt(s, i))]

\* --------------------------------------------------- parse_change_value
NoError == "none"

\* The result of a call: what it raised (NoError when it returned) and the
\* value it returned.
ParseChangeValue(change_str) ==
    IF ~Truthy(change_str) THEN [raised |-> NoError, value |-> 0]
    ELSE IF change_str.tag # "str"
         THEN [raised |-> "AttributeError", value |-> 0]
         ELSE LET match == ReSearch(StripPercent(change_str.s))
              IN [raised |-> NoError,
                  value |-> IF match.found THEN FloatOf(match.group) ELSE 0]

\* ------------------------------------------------ get_color_from_change
\* A color is the rgb triple of the rgba(...) string and its opacity as a
\* multiple of 1/(200 * Scale).
AlphaUnit == 200 * Scale
GreenRGB == <<34, 197, 94>>
RedRGB == <<239, 68, 68>>
GrayRGB == <<156, 163, 175>>
BaseAlpha == (3 * AlphaUnit) \div 10

\* A faulty variant: the magnitude is taken without abs().
Intensity_NoAbs(change_value) == Min(change_value * 10, 100 * Scale)

\* min(abs(change_value) * 10, 100), as a multiple of 1/Scale
Intensity(change_value) == Min(Abs(change_value) * 10, 100 * Scale)

\* A faulty variant: the first test is >= 0, so no change is green.
GetColorFromChange_ZeroGreen(change_value) ==
    IF change_value >= 0
    THEN [rgb |-> GreenRGB, alpha |-> BaseAlpha + Intensity(change_value)]
    ELSE [rgb |-> RedRGB, alpha |-> BaseAlpha + Intensity(change_value)]

GetColorFromChange(change_value) ==
    IF change_value > 0
    THEN [rgb |-> GreenRGB, alpha |-> BaseAlpha + Intensity(change_value)]
    ELSE IF change_value < 0
         THEN [rgb |-> RedRGB, alpha |-> BaseAlpha + Intensity(change_value)]
         ELSE [rgb |-> GrayRGB, alpha |-> BaseAlpha]


\* ------------------------------------------------------- raw records
\* String literals of the source.
NA == Str(<<"N", "/", "A">>)
ZeroPct == Str(<<"0", "%">>)
DefaultArea == Num(100)
OutputHtml == "heatmap_output.html"
NoDataHtml == "heatmap_no_data.html"
DataCsv == "heatmap_data.csv"
None == "None"
Destinations == {OutputHtml, NoDataHtml, DataCsv}

\* Sample field values of the records the in-page script returns.
SymAAA == Str(<<"A", "A", "A">>)
SymBBB == Str(<<"B", "B", "B">>)
NameAlpha == Str(<<"A", "l", "p", "h", "a">>)
Price120 == Str(<<"1", "2", "0", ".", "5", "0">>)
ChgUp == Str(<<"+", "5", ".", "0", "0", "%">>)
ChgDown == Str(<<"-", "3", ".", "2", "0", "%">>)
ChgFlat == ZeroPct
ChgText == Str(<<"N", "/", "A">>)
AreaSmall == Num(500)
AreaBig == Num(900)

Rec(sym, nm, chg, pr, ar) ==
    [symbol |-> sym, name |-> nm, change |-> chg, price |-> pr,
     color |-> Str(<<>>), area |-> ar]

\* Records with every field present and of the expected type.
WellFormedRecords ==
    {Rec(sym, NameAlpha, chg, Price120, ar) :
        sym \in {SymAAA, SymBBB}, chg \in {ChgUp, ChgDown, ChgFlat},
        ar \in {AreaSmall, AreaBig}}

\* Records with keys missing.
MissingFieldRecords ==
    {Rec(Absent, NameAlpha, ChgUp, Price120, AreaSmall),
     Rec(SymAAA, Absent, ChgUp, Price120, AreaSmall),
     Rec(SymAAA, NameAlpha, Absent, Price120, AreaSmall),
     Rec(SymAAA, NameAlpha, ChgUp, Absent, AreaSmall),
     Rec(SymAAA, NameAlpha, ChgUp, Price120, Absent),
     Rec(Absent, Absent, ChgDown, Price120, AreaBig),
     Rec(Absent, Absent, Absent, Absent, Absent)}

\* Records whose change or area is null, empty, unparseable or of another type.
MalformedRecords ==
    {Rec(SymAAA, NameAlpha, chg, Price120, AreaSmall) :
        chg \in {Null, Str(<<>>), ChgText, Num(5)}}
    \cup {Rec(SymBBB, NameAlpha, ChgDown, Price120, Null)}

RawRecords == WellFormedRecords \cup MissingFieldRecords \cup MalformedRecords

RawSequences == UNION {[1..n -> RawRecords] : n \in 0..MaxRecords}

\* ------------------------------------- generate_html_output: normalize
\* dict.get(key, default)
Get(item, key, default) == IF item[key].tag = "absent" THEN default ELSE item[key]

\* A faulty variant: the area of a record without one is 0.
ProcessedItem_AreaZero(item, parsed) ==
    [raised |-> parsed.raised,
     item |-> [symbol |-> Get(item, "symbol", NA),
               name |-> Get(item, "name", NA),
               change |-> Get(item, "change", ZeroPct),
               change_value |-> parsed.value,
               price |-> Get(item, "price", NA),
               area |-> Get(item, "area", Num(0)),
               color |-> GetColorFromChange(parsed.value)]]

\* The dict of lines 167-175, given what parse_change_value did.
ProcessedItem(item, parsed) ==
    [raised |-> parsed.raised,
     item |-> [symbol |-> Get(item, "symbol", NA),
               name |-> Get(item, "name", NA),
               change |-> Get(item, "change", ZeroPct),
               change_value |-> parsed.value,
               price |-> Get(item, "price", NA),
               area |-> Get(item, "area", DefaultArea),
               color |-> GetColorFromChange(parsed.value)]]

\* One pass of the loop body (lines 166-176).
ProcessItem(item) ==
    ProcessedItem(item, ParseChangeValue(Get(item, "change", ZeroPct)))

\* processed_data.append(processed_item), unless an earlier pass or this one
\* raised: the loop stops at the first item that raises.
AppendProcessed(acc, r) ==
    IF acc.raised # NoError THEN acc
    ELSE IF r.raised # NoError THEN [raised |-> r.raised, items |-> <<>>]
    ELSE [raised |-> NoError, items |-> Append(acc.items, r.item)]

\* The loop of lines 165-176.
RECURSIVE ProcessData(_)
ProcessData(data) ==
    IF data = <<>> THEN [raised |-> NoError, items |-> <<>>]
    ELSE AppendProcessed(ProcessData(SubSeq(data, 1, Len(data) - 1)),
                         ProcessItem(data[Len(data)]))

Reverse(s) == [i \in 1..Len(s) |-> s[Len(s) + 1 - i]]

\* x['area'] < y['area'] for two numbers
AreaLess(x, y) == x.area.n < y.area.n

\* Insert x after every element that is not greater than it.
RECURSIVE InsertStable(_, _)
InsertStable(sorted, x) ==
    IF sorted = <<>> THEN <<x>>
    ELSE IF AreaLess(x, sorted[Len(sorted)])
         THEN Append(InsertStable(SubSeq(sorted, 1, Len(sorted) - 1), x),
                     sorted[Len(sorted)])
         ELSE Append(sorted, x)

\* A stable ascending sort by the key.
RECURSIVE StableSortAsc(_)
StableSortAsc(s) ==
    IF s = <<>> THEN <<>>
    ELSE InsertStable(StableSortAsc(SubSeq(s, 1, Len(s) - 1)), s[Len(s)])

\* A faulty variant: sorted ascending and then reversed, which reverses the ties.
SortDescending_ReversesTies(items) == Reverse(StableSortAsc(items))

\* list.sort(key=lambda x: x['area'], reverse=True) on numeric keys: the list
\* is reversed, sorted ascending by a stable sort and reversed again.
SortDescending(items) == Reverse(StableSortAsc(Reverse(items)))

\* The sort of line 179.  A list of two or more elements compares its keys,
\* and '<' raises TypeError unless both keys are numbers.
SortByArea(items) ==
    IF Len(items) >= 2 /\ \E i \in 1..Len(items) : items[i].area.tag # "num"
    THEN [raised |-> "TypeError", items |-> <<>>]
    ELSE [raised |-> NoError, items |-> SortDescending(items)]

\* --------------------------------------- generate_html_output: render
Count(S) == Cardinality(S)
\* A faulty variant: the gainers are counted with >= 0.
Gainers_CountsZero(processed) ==
    Count({i \in 1..Len(processed) : processed[i].change_value >= 0})

Gainers(processed) ==
    Count({i \in 1..Len(processed) : processed[i].change_value > 0})
Losers(processed) ==
    Count({i \in 1..Len(processed) : processed[i].change_value < 0})
Unchanged(processed) ==
    Count({i \in 1..Len(processed) : processed[i].change_value = 0})

ChangeClass(stock) ==
    IF stock.change_value > 0 THEN "positive"
    ELSE IF stock.change_value < 0 THEN "negative" ELSE "neutral"

AccentColor(stock) ==
    IF stock.change_value > 0 THEN "#22c55e"
    ELSE IF stock.change_value < 0 THEN "#ef4444" ELSE "#6b7280"

\* One stock-tile element (lines 397-406).
Tile(stock) ==
    [tile_color |-> stock.color, accent_color |-> AccentColor(stock),
     symbol |-> stock.symbol, name |-> stock.name,
     change_class |-> ChangeClass(stock), change |-> stock.change,
     price |-> stock.price]

\* The document: the four stat numbers and the tiles in order.
Render(processed) ==
    [total |-> Len(processed),
     gainers |-> Gainers(processed),
     losers |-> Losers(processed),
     unchanged |-> Unchanged(processed),
     tiles |-> [i \in 1..Len(processed) |-> Tile(processed[i])]]

BlankDoc == [total |-> 0, gainers |-> 0, losers |-> 0, unchanged |-> 0, tiles |-> <<>>]
NoFile == [exists |-> FALSE, rows |-> <<>>, doc |-> BlankDoc]

\* The result of a call that writes: what it raised, what it returned, the
\* file it wrote and the processed list it built.
Raised(kind) ==
    [raised |-> kind, ret |-> None, file |-> NoFile, processed |-> <<>>]
Returned(ret, file, processed) ==
    [raised |-> NoError, ret |-> ret, file |-> file, processed |-> processed]

\* Lines 181-464 on the sorted list: the document is built and written; an
\* exception of open() or write() is caught and None is returned.
WriteHtml(sorted, filename, can_write) ==
    IF sorted.raised # NoError THEN Raised(sorted.raised)
    ELSE IF can_write
    THEN Returned(filename,
                  [exists |-> TRUE, rows |-> <<>>, doc |-> Render(sorted.items)],
                  sorted.items)
    ELSE Returned(None, NoFile, sorted.items)

\* Lines 178-464 on the processed list.
SortAndWrite(processed, filename, can_write) ==
    IF processed.raised # NoError THEN Raised(processed.raised)
    ELSE WriteHtml(SortByArea(processed.items), filename, can_write)

\* generate_html_output(data, filename); can_write says whether open() and
\* write() succeed.
GenerateHtmlOutput(data, filename, can_write) ==
    IF data = <<>> THEN Returned(None, NoFile, <<>>)
    ELSE SortAndWrite(ProcessData(data), filename, can_write)

\* save_to_csv(data, filename): DataFrame.to_csv raises when the destination
\* cannot be written.
SaveToCsv(data, filename, can_write) ==
    IF data # <<>>
    THEN IF can_write
         THEN Returned(None, [exists |-> TRUE, rows |-> data, doc |-> BlankDoc],
                       <<>>)
         ELSE Raised("OSError")
    ELSE Returned(None, NoFile, <<>>)

\* scrape_heatmap_data: outcome is what the driver does, an error raised by
\* get, wait.until or execute_script, or the list the script returns.
ScrapeErrors == {"WebDriverException", "TimeoutException", "JavascriptException"}
\* A faulty variant: the try/except of lines 38-104 is missing, the error propagates.
ScrapeHeatmapData_Propagates(outcome) ==
    [raised |-> outcome.error, ret |-> outcome.data]

ScrapeHeatmapData(outcome) ==
    IF outcome.error # NoError
    THEN [raised |-> NoError, ret |-> <<>>]
    ELSE [raised |-> NoError, ret |-> outcome.data]

DriverOutcomes ==
    {[error |-> e, data |-> <<>>] : e \in ScrapeErrors}
    \cup {[error |-> NoError, data |-> d] : d \in RawSequences}

\* ------------------------------------------------------------- state
VARIABLES
    pc,                  \* where main is
    writable,            \* the destinations the file system lets be written
    driver,              \* the browser session: "open" or "quit"
    heatmap_data,        \* main's heatmap_data
    driver_error,        \* what the driver raised during extraction, if anything
    exc,                 \* the exception that reached main's except clause
    processed_data,      \* generate_html_output's processed_data after line 179
    actual_html_file,    \* main's actual_html_file
    html_file_generated, \* main's flag
    fs,                  \* the files written, by destination
    calls,               \* the scraper methods main has called, in order
    pure_pc,             \* position of a direct call of the pure functions
    change_str,          \* the argument of parse_change_value
    parsed,              \* its result
    tile_color,          \* the result of get_color_from_change
    other_value,         \* the argument of a second call of get_color_from_change
    other_color          \* its result

main_vars == <<pc, writable, driver, heatmap_data, driver_error, exc,
               processed_data, actual_html_file, html_file_generated, fs, calls>>
pure_vars == <<pure_pc, change_str, parsed, tile_color, other_value, other_color>>
vars == <<main_vars, pure_vars>>

Call(fn, data, filename) == [fn |-> fn, n |-> Len(data), filename |-> filename]

\* main after line 484: the scraper is constructed and holds the session.
MainInit ==
    /\ pc = "scrape"
    /\ driver = "open"
    /\ heatmap_data = <<>>
    /\ driver_error = NoError
    /\ exc = NoError
    /\ processed_data = <<>>
    /\ actual_html_file = None
    /\ html_file_generated = FALSE
    /\ fs = [d \in Destinations |-> NoFile]
    /\ calls = <<>>

PureIdle ==
    /\ pure_pc = "off"
    /\ change_str = Null
    /\ parsed = [raised |-> NoError, value |-> 0]
    /\ tile_color = GetColorFromChange(0)
    /\ other_value = 0
    /\ other_color = GetColorFromChange(0)

Init ==
    /\ MainInit
    /\ writable \in SUBSET Destinations
    /\ PureIdle

\* line 488 and the test of line 490
MainScrape ==
    /\ pc = "scrape"
    /\ \E outcome \in DriverOutcomes : \E r \in {ScrapeHeatmapData(outcome)} :
            /\ driver_error' = outcome.error
            /\ calls' = Append(calls, Call("scrape_heatmap_data", <<>>, None))
            /\ IF r.raised # NoError
               THEN /\ exc' = r.raised
                    /\ pc' = "except"
                    /\ UNCHANGED heatmap_data
               ELSE /\ heatmap_data' = r.ret
                    /\ pc' = IF r.ret # <<>> THEN "csv" ELSE "no_data"
                    /\ UNCHANGED exc
    /\ UNCHANGED <<writable, driver, processed_data, actual_html_file,
                   html_file_generated, fs>>
    /\ UNCHANGED pure_vars

\* lines 491-494
MainSaveCsv ==
    /\ pc = "csv"
    /\ \E r \in {SaveToCsv(heatmap_data, DataCsv, DataCsv \in writable)} :
          /\ calls' = Append(calls, Call("save_to_csv", heatmap_data, DataCsv))
          /\ fs' = IF r.file.exists THEN [fs EXCEPT ![DataCsv] = r.file] ELSE fs
          /\ exc' = r.raised
          /\ pc' = IF r.raised # NoError THEN "except" ELSE "html"
    /\ UNCHANGED <<writable, driver, heatmap_data, driver_error, processed_data,
                   actual_html_file, html_file_generated>>
    /\ UNCHANGED pure_vars

\* The call of generate_html_output and the test of what it returned
\* (lines 499-504 and 511-516); os.path.exists holds of a file just written.
MainHtml(data, filename, sets_flag) ==
    \E r \in {GenerateHtmlOutput(data, filename, filename \in writable)} :
       /\ calls' = Append(calls, Call("generate_html_output", data, filename))
       /\ fs' = IF r.file.exists THEN [fs EXCEPT ![filename] = r.file] ELSE fs
       /\ exc' = r.raised
       /\ processed_data' = r.processed
       /\ IF r.raised # NoError
          THEN /\ pc' = "except"
               /\ UNCHANGED <<actual_html_file, html_file_generated>>
          ELSE /\ pc' = "finally"
               /\ actual_html_file' = r.ret
               /\ html_file_generated' =
                    IF sets_flag /\ r.ret # None /\ fs'[r.ret].exists
                    THEN TRUE ELSE html_file_generated
       /\ UNCHANGED <<writable, driver, heatmap_data, driver_error>>
       /\ UNCHANGED pure_vars

\* lines 496-504
MainGenerateHtml ==
    /\ pc = "html"
    /\ MainHtml(heatmap_data, OutputHtml, TRUE)

\* lines 505-516
MainNoData ==
    /\ pc = "no_data"
    /\ MainHtml(<<>>, NoDataHtml, FALSE)

\* A faulty variant: close() is the last statement of the try block instead of a
\* finally clause, so the except clause ends main.
MainExcept_SkipsFinally ==
    /\ pc = "except"
    /\ pc' = "done"
    /\ UNCHANGED <<writable, driver, heatmap_data, driver_error, exc,
                   processed_data, actual_html_file, html_file_generated, fs,
                   calls>>
    /\ UNCHANGED pure_vars

\* lines 519-522: the exception is printed with its trace and dropped.
MainExcept ==
    /\ pc = "except"
    /\ pc' = "finally"
    /\ UNCHANGED <<writable, driver, heatmap_data, driver_error, exc,
                   processed_data, actual_html_file, html_file_generated, fs,
                   calls>>
    /\ UNCHANGED pure_vars

\* close(): the scraper has its driver attribute, so the session is quit.
Close ==
    /\ driver' = "quit"
    /\ calls' = Append(calls, Call("close", <<>>, None))

\* lines 524-527
MainFinally ==
    /\ pc = "finally"
    /\ Close
    /\ pc' = "done"
    /\ UNCHANGED <<writable, heatmap_data, driver_error, exc, processed_data,
                   actual_html_file, html_file_generated, fs>>
    /\ UNCHANGED pure_vars

Next ==
    \/ MainScrape
    \/ MainSaveCsv
    \/ MainGenerateHtml
    \/ MainNoData
    \/ MainExcept
    \/ MainFinally

Spec == Init /\ [][Next]_vars

\* --------------------------------- the pure functions, called directly
PureAlphabet == {"+", "-", ".", "%", "0", "1", "5", "N"}
PureStrings == UNION {[1..n -> PureAlphabet] : n \in 0..MaxStrLen}
PureInputs == {Null, Num(0), Num(5)} \cup {Str(s) : s \in PureStrings}

InitPure ==
    /\ MainInit
    /\ writable = Destinations
    /\ pure_pc = "input"
    /\ change_str \in PureInputs
    /\ parsed = [raised |-> NoError, value |-> 0]
    /\ tile_color = GetColorFromChange(0)
    /\ other_value = 0
    /\ other_color = GetColorFromChange(0)

CallParseChangeValue ==
    /\ pure_pc = "input"
    /\ parsed' = ParseChangeValue(change_str)
    /\ pure_pc' = IF parsed'.raised = NoError THEN "parsed" ELSE "raised"
    /\ UNCHANGED <<change_str, tile_color, other_value, other_color>>
    /\ UNCHANGED main_vars

CallGetColorFromChange ==
    /\ pure_pc = "parsed"
    /\ tile_color' = GetColorFromChange(parsed.value)
    /\ pure_pc' = "colored"
    /\ UNCHANGED <<change_str, parsed, other_value, other_color>>
    /\ UNCHANGED main_vars

NextPure ==
    \/ CallParseChangeValue
    \/ CallGetColorFromChange

SpecPure == InitPure /\ [][NextPure]_vars

\* ------------------- get_color_from_change called on two change values
\* The change values of the grid: every tenth from -MaxMagnitude to
\* MaxMagnitude, and 100 and -100.
ColorValues ==
    {k * (Scale \div 10) : k \in (0 - 10 * MaxMagnitude)..(10 * MaxMagnitude)}
    \cup {100 * Scale, 0 - 100 * Scale}

\* parsed.value is the change value of the first call, other_value that of
\* the second.
InitColor ==
    /\ MainInit
    /\ writable = Destinations
    /\ pure_pc = "parsed"
    /\ change_str = Null
    /\ parsed \in {[raised |-> NoError, value |-> v] : v \in ColorValues}
    /\ tile_color = GetColorFromChange(0)
    /\ other_value \in ColorValues
    /\ other_color = GetColorFromChange(0)

CallGetColorAgain ==
    /\ pure_pc = "colored"
    /\ other_color' = GetColorFromChange(other_value)
    /\ pure_pc' = "compared"
    /\ UNCHANGED <<change_str, parsed, tile_color, other_value>>
    /\ UNCHANGED main_vars

NextColor ==
    \/ CallGetColorFromChange
    \/ CallGetColorAgain

SpecColor == InitColor /\ [][NextColor]_vars

\* ============================================================= claims
Called(fn) == \E i \in 1..Len(calls) : calls[i].fn = fn
CallsOf(fn) == {i \in 1..Len(calls) : calls[i].fn = fn}
HtmlDoc == fs[OutputHtml].doc
Rendered == fs[OutputHtml].exists

\* C1: generate_html_output on an empty sequence writes, at the destination it
\* is given, a document with no tiles and the four counts 0, returns that
\* destination and raises nothing.  main makes that call with
\* heatmap_no_data.html when the extraction returned nothing.
C1_EmptyReportWritten ==
    (pc \in {"finally", "done"} /\ heatmap_data = <<>> /\ NoDataHtml \in writable)
        => /\ exc = NoError
           /\ actual_html_file = NoDataHtml
           /\ fs[NoDataHtml].exists
           /\ fs[NoDataHtml].doc = BlankDoc

\* C2: with a non-empty scraped sequence, a destination that cannot be
\* written fails only its own stage: when heatmap_data.csv is unwritable
\* generate_html_output is still called and no exception leaves save_to_csv,
\* and when heatmap_output.html is unwritable the export is written all the
\* same and generate_html_output returns None instead of raising.
C2_StagesIndependent ==
    (pc = "done" /\ heatmap_data # <<>>)
        => /\ DataCsv \notin writable
                => (Called("generate_html_output") /\ exc # "OSError")
           /\ (OutputHtml \notin writable /\ DataCsv \in writable)
                => (fs[DataCsv].exists /\ exc # "OSError")

\* C3: whatever its stages did (returned data, returned nothing or raised),
\* main is at its end only with the session released: close() has been called
\* exactly once and is the last call.  Before the end the session is open and
\* close() has not been called, so no stage runs on a quit session, and main
\* is always at one of its statements, each of which runs and moves on.
C3_SessionReleased ==
    /\ pc \in {"scrape", "csv", "html", "no_data", "except", "finally", "done"}
    /\ pc = "done" => /\ driver = "quit"
                      /\ Cardinality(CallsOf("close")) = 1
                      /\ calls[Len(calls)].fn = "close"
    /\ pc # "done" => /\ driver = "open"
                      /\ ~Called("close")

\* C3 witness: main ended after a stage raised, and the session is quit.
C3_Witness ==
    /\ pc = "done"
    /\ exc # NoError
    /\ driver = "quit"
    /\ calls[Len(calls)].fn = "close"

\* C4: an error of the driver during extraction is caught in
\* scrape_heatmap_data, which returns the empty list: main sees no data, no
\* exception reaches its except clause, and its next call asks
\* generate_html_output for the empty report at heatmap_no_data.html.
C4_ExtractionFailureIsNoData ==
    (driver_error # NoError /\ pc # "scrape")
        => /\ heatmap_data = <<>>
           /\ exc = NoError
           /\ pc \in {"no_data", "finally", "done"}
           /\ pc \in {"finally", "done"}
                => calls[2] = Call("generate_html_output", <<>>, NoDataHtml)

\* C4 witness: the wait for the DOM condition timed out and main has ended
\* after asking for the empty report.
C4_Witness ==
    /\ pc = "done"
    /\ driver_error = "TimeoutException"
    /\ calls[2] = Call("generate_html_output", <<>>, NoDataHtml)

\* generate_html_output was called on the scraped records and returned.
Normalized ==
    /\ pc \in {"finally", "done"}
    /\ heatmap_data # <<>>
    /\ exc = NoError

Perms(n) == {p \in [1..n -> 1..n] : \A i, j \in 1..n : p[i] = p[j] => i = j}
OrElse(v, default) == IF v = Absent THEN default ELSE v

\* The processed item carries the fields of the raw record.
SameRecord(item, raw) ==
    /\ item.symbol = OrElse(raw.symbol, NA)
    /\ item.name = OrElse(raw.name, NA)
    /\ item.change = OrElse(raw.change, ZeroPct)
    /\ item.price = OrElse(raw.price, NA)
    /\ item.area = OrElse(raw.area, DefaultArea)

\* C5: the normalized sequence is a permutation of the input of the same
\* length, in descending order of area, with records of equal area in their
\* input order; the document has one tile per record in that order.
C5_StableDescendingOrder ==
    Normalized =>
        /\ Len(processed_data) = Len(heatmap_data)
        /\ \E p \in Perms(Len(heatmap_data)) :
             /\ \A i \in 1..Len(heatmap_data) :
                  SameRecord(processed_data[i], heatmap_data[p[i]])
             /\ \A i, j \in 1..Len(heatmap_data) :
                  i < j => \/ processed_data[i].area.n > processed_data[j].area.n
                           \/ /\ processed_data[i].area.n = processed_data[j].area.n
                              /\ p[i] < p[j]
        /\ Rendered =>
             /\ Len(HtmlDoc.tiles) = Len(processed_data)
             /\ \A i \in 1..Len(processed_data) :
                  /\ HtmlDoc.tiles[i].symbol = processed_data[i].symbol
                  /\ HtmlDoc.tiles[i].name = processed_data[i].name
                  /\ HtmlDoc.tiles[i].change = processed_data[i].change
                  /\ HtmlDoc.tiles[i].price = processed_data[i].price

\* C5 witness: areas 500 (AAA) and 900 (BBB) are rendered as BBB, AAA.
C5_Witness ==
    /\ Rendered
    /\ heatmap_data = <<Rec(SymAAA, NameAlpha, ChgUp, Price120, AreaSmall),
                        Rec(SymBBB, NameAlpha, ChgDown, Price120, AreaBig)>>
    /\ HtmlDoc.tiles[1].symbol = SymBBB
    /\ HtmlDoc.tiles[2].symbol = SymAAA

\* The defaults of a normalized record, but for its name.
DefaultsButName(item, raw) ==
    /\ raw.symbol = Absent => item.symbol = NA
    /\ raw.change = Absent => (item.change = ZeroPct /\ item.change_value = 0)
    /\ raw.price = Absent => item.price = NA
    /\ raw.area = Absent => item.area = Num(100)
    /\ raw.symbol # Absent => item.symbol = raw.symbol
    /\ raw.name # Absent => item.name = raw.name
    /\ raw.change # Absent => item.change = raw.change
    /\ raw.price # Absent => item.price = raw.price
    /\ raw.area # Absent => item.area = raw.area

\* Some matching of the processed items with the records, each item holding
\* its record's fields with the defaults, the name's given by NameDefault.
DefaultsHold(NameDefault(_)) ==
    \E p \in Perms(Len(heatmap_data)) : \A i \in 1..Len(heatmap_data) :
        /\ DefaultsButName(processed_data[i], heatmap_data[p[i]])
        /\ heatmap_data[p[i]].name = Absent
             => processed_data[i].name = NameDefault(heatmap_data[p[i]])
        /\ (Rendered /\ heatmap_data[p[i]].change = Absent)
             => HtmlDoc.tiles[i].change_class = "neutral"

NameIsSymbol(raw) == OrElse(raw.symbol, NA)
NameIsNA(raw) == NA

\* C6 as stated: an absent name is replaced by the record's symbol, and by
\* "N/A" only when the symbol is absent too; the other absent fields get
\* "N/A", "0%", "N/A" and 100, and an absent changeText gives 0.0, neutral.
C6_NameDefaultsToSymbol == Normalized => DefaultsHold(NameIsSymbol)

\* C6 amended: an absent name is replaced by "N/A" whatever the symbol is;
\* the other absent fields get "N/A", "0%", "N/A" and 100, and an absent
\* changeText gives 0.0, neutral.
C6_NameDefaultsToNA == Normalized => DefaultsHold(NameIsNA)

\* C6 witness: a record with a symbol and no name is rendered with the name
\* "N/A", next to a record with nothing but defaults.
C6_Witness ==
    /\ Rendered
    /\ heatmap_data = <<Rec(SymAAA, Absent, ChgUp, Price120, AreaSmall),
                        Rec(Absent, Absent, Absent, Absent, Absent)>>
    /\ HtmlDoc.tiles[1].symbol = SymAAA
    /\ HtmlDoc.tiles[1].name = NA
    /\ processed_data[2].area = Num(100)
    /\ HtmlDoc.tiles[2].change_class = "neutral"

\* C7: normalization raises on no record: once generate_html_output has been
\* called on the scraped records, no exception has left it and every record
\* is in the normalized sequence.
C7_NormalizationNeverRaises ==
    (Called("generate_html_output") /\ heatmap_data # <<>>)
        => /\ exc = NoError
           /\ Len(processed_data) = Len(heatmap_data)

\* The tiles of the document with a classification tag.
TilesOfClass(class) ==
    {i \in 1..Len(HtmlDoc.tiles) : HtmlDoc.tiles[i].change_class = class}

\* C9: in the rendered document gainers + losers + unchanged = total, total
\* is the number of records, and the three counts are the numbers of tiles
\* tagged positive, negative and neutral, each tile having one tag.
C9_CountsPartitionTotal ==
    Rendered =>
        /\ HtmlDoc.gainers + HtmlDoc.losers + HtmlDoc.unchanged = HtmlDoc.total
        /\ HtmlDoc.total = Len(heatmap_data)
        /\ HtmlDoc.total = Len(HtmlDoc.tiles)
        /\ HtmlDoc.gainers = Cardinality(TilesOfClass("positive"))
        /\ HtmlDoc.losers = Cardinality(TilesOfClass("negative"))
        /\ HtmlDoc.unchanged = Cardinality(TilesOfClass("neutral"))

\* C9 witness: one gainer and one loser in a document of two.
C9_Witness ==
    /\ Rendered
    /\ HtmlDoc.total = 2
    /\ HtmlDoc.gainers = 1
    /\ HtmlDoc.losers = 1
    /\ HtmlDoc.unchanged = 0

\* The tag, accent and tile color of one class.
OfClass(tile, class, accent, rgb) ==
    /\ tile.change_class = class
    /\ tile.accent_color = accent
    /\ tile.tile_color.rgb = rgb

\* C10: every tile's tag, accent color and tile color follow the sign of the
\* record's changeValue: positive, #22c55e and green above 0; negative,
\* #ef4444 and red below 0; neutral, #6b7280 and gray of opacity 0.3 at 0.
C10_TagAndColorsAgree ==
    Rendered => \A i \in 1..Len(HtmlDoc.tiles) :
        LET v == processed_data[i].change_value
            tile == HtmlDoc.tiles[i]
        IN /\ v > 0 => OfClass(tile, "positive", "#22c55e", <<34, 197, 94>>)
           /\ v < 0 => OfClass(tile, "negative", "#ef4444", <<239, 68, 68>>)
           /\ v = 0 => /\ OfClass(tile, "neutral", "#6b7280", <<156, 163, 175>>)
                       /\ tile.tile_color.alpha * 10 = 3 * AlphaUnit

\* C10 witness: a document with a neutral tile and a negative one.
C10_Witness ==
    /\ Rendered
    /\ \E i, j \in 1..Len(HtmlDoc.tiles) :
         /\ processed_data[i].change_value = 0
         /\ HtmlDoc.tiles[i].change_class = "neutral"
         /\ processed_data[j].change_value < 0
         /\ HtmlDoc.tiles[j].tile_color.rgb = RedRGB

\* ----------------------------------------------- C8: parse_change_value
\* t is an optional sign, one or more digits, and optionally a decimal point
\* followed by digits.
NumberForm(t) ==
    \E k \in 0..1, a \in 1..Len(t), d \in 0..1, b \in 0..Len(t) :
        /\ k + a + d + b = Len(t)
        /\ k = 1 => IsSign(t[1])
        /\ \A i \in (k + 1)..(k + a) : IsDigit(t[i])
        /\ d = 1 => t[k + a + 1] = "."
        /\ d = 0 => b = 0
        /\ \A i \in (k + a + d + 1)..Len(t) : IsDigit(t[i])

\* The substrings of s of that form, by first and last index.
NumberSubstrings(s) ==
    {m \in (1..Len(s)) \X (1..Len(s)) :
        m[1] <= m[2] /\ NumberForm(SubSeq(s, m[1], m[2]))}

\* The first of them, and the longest of those that start there.
FirstMaximal(s) ==
    LET m == CHOOSE x \in NumberSubstrings(s) : \A o \in NumberSubstrings(s) :
                 x[1] < o[1] \/ (x[1] = o[1] /\ x[2] >= o[2])
    IN SubSeq(s, m[1], m[2])

\* The number a string of that form denotes, as a multiple of 1/Scale: each
\* digit weighs the power of ten of its place.
NumericValue(t) ==
    LET first == IF IsSign(t[1]) THEN 2 ELSE 1
        point == IF \E i \in 1..Len(t) : t[i] = "."
                 THEN CHOOSE i \in 1..Len(t) : t[i] = "." ELSE Len(t) + 1
        Weight(i) == IF i < point THEN DigitVal(t[i]) * Scale * 10 ^ (point - 1 - i)
                     ELSE IF i = point THEN 0
                     ELSE DigitVal(t[i]) * 10 ^ (Precision - (i - point))
        RECURSIVE SumFrom(_)
        SumFrom(i) == IF i > Len(t) THEN 0 ELSE Weight(i) + SumFrom(i + 1)
    IN IF t[1] = "-" THEN 0 - SumFrom(first) ELSE SumFrom(first)

WithoutPercent(s) == SelectSeq(s, LAMBDA c : c # "%")
ParsedString == pure_pc \in {"parsed", "colored"} /\ change_str.tag \in {"str", "null"}

\* parse_change_value returned the number of the first maximal substring of
\* that form of the input without its percent markers, and 0 when the input
\* is null, empty or has no such substring.
ParsesFirstNumber ==
    LET s == WithoutPercent(change_str.s)
    IN /\ parsed.raised = NoError
       /\ NumberSubstrings(s) # {} => parsed.value = NumericValue(FirstMaximal(s))
       /\ NumberSubstrings(s) = {} => parsed.value = 0

\* C8 as stated: parse_change_value returns the value of the first maximal
\* substring of the form sign, digits, point, digits of the input without
\* its percent markers, and returns 0.0 exactly when the input is null, empty
\* or has no such substring.
C8_ZeroExactlyWhenNoNumber ==
    ParsedString =>
        /\ ParsesFirstNumber
        /\ parsed.value = 0 <=> NumberSubstrings(WithoutPercent(change_str.s)) = {}

\* C8 amended: parse_change_value returns the value of the first maximal
\* substring of that form of the input without its percent markers, and
\* returns 0.0 when the input is null, empty or has no such substring, and
\* otherwise only when that substring denotes zero (as in "0%").
C8_ParsesFirstNumber ==
    ParsedString =>
        /\ ParsesFirstNumber
        /\ parsed.value = 0 <=>
             \/ NumberSubstrings(WithoutPercent(change_str.s)) = {}
             \/ NumericValue(FirstMaximal(WithoutPercent(change_str.s))) = 0

\* C8 witness: "-1.5" parsed to -1.5
C8_Witness ==
    /\ pure_pc = "parsed"
    /\ change_str = Str(<<"-", "1", ".", "5">>)
    /\ parsed.value * 10 = (0 - 15) * Scale

\* -------------------------------------------------------- C11: opacity
\* 0.3 + min(|v| * 10, 100) / 200 as a multiple of 1/(2000 * Scale)
OpacityFormula(v) ==
    600 * Scale + 10 * (IF Abs(v) * 10 <= 100 * Scale THEN Abs(v) * 10 ELSE 100 * Scale)

=============================================================================
